---- MODULE Spec2Model ----
(***************************************************************************)
(* Temperature monitoring dashboard (src/app.py).                          *)
(*                                                                         *)
(* One behaviour is one run of the Streamlit script over one uploaded CSV: *)
(* line 83 run_parallel, the city selection and seasonal table, the live   *)
(* weather check, the charts, and the run_sequential / run_parallel        *)
(* benchmark at the end.                                                   *)
(*                                                                         *)
(* Numbers.  Temperatures are integers.  A float that may be NaN (or a     *)
(* timestamp that may be NaT) is the empty tuple Missing or a one-element  *)
(* tuple <<v>>.  Means and deviations are kept exact:                      *)
(*   rolling_mean = <<s>>      stands for s / Window                       *)
(*   mean_season  = <<S, n>>   stands for S / n                            *)
(*   std_season   = <<V, d>>   stands for sqrt(V / d)  (V = n*Q - S^2,     *)
(*                             d = n*(n-1), sample deviation, ddof = 1)    *)
(* and every comparison of the code is decided on these exact values.      *)
(***************************************************************************)
EXTENDS Integers, Sequences, FiniteSets

VARIABLES
    uploaded_file,   \* whether a CSV was uploaded (line 75)
    data,            \* the rows read from it (lines 80-81)
    api_key,         \* whether an API key was entered (line 77)
    tie_order,       \* the order this run's sort gives to equal timestamps
    pc,              \* position of the script run
    site,            \* which run_parallel call is executing: "main" or "bench"
    futures,         \* executor.map: per city group, its worker's state
    processed_data,  \* line 83
    selected_city,   \* line 88
    stats,           \* lines 96-98
    response,        \* what the weather API call met (line 55)
    status,          \* line 117
    verdict,         \* what the current-temperature block displayed
    chart,           \* what the two figures were drawn from
    seq_result,      \* frame returned by run_sequential, line 211
    par_result       \* frame returned by run_parallel, line 212

vars == <<uploaded_file, data, api_key, tie_order, pc, site, futures,
          processed_data, selected_city, stats, response, status, verdict,
          chart, seq_result, par_result>>

\* ------------------------------------------------------------ bounds
\* Longest dataset of the free-form input family.
MaxLen == 2
\* Longest series of the patterned single-city family.
MaxN == 40

\* ------------------------------------------------------------ values
Missing == <<>>
NaNCity == "NaN"
Unset == "unset"

\* rolling(window=30, center=True), line 28
Window == 30

season_order == <<"winter", "spring", "summer", "autumn">>

IsMissing(v) == v = Missing
Val(v) == v[1]

\* ------------------------------------------------------------ sequences
RECURSIVE Concat(_)
Concat(ss) == IF ss = <<>> THEN <<>> ELSE Head(ss) \o Concat(Tail(ss))

\* The explicit sequence of a function over 1..n (TLC evaluates a function
\* constructor anew at each application; a concatenation is evaluated once).
AsSeq(f) == f \o <<>>

Reverse(s) == AsSeq([i \in 1..Len(s) |-> s[Len(s) + 1 - i]])

RECURSIVE SumTo(_, _)
SumTo(s, n) == IF n = 0 THEN 0 ELSE s[n] + SumTo(s, n - 1)
SumSeq(s) == SumTo(s, Len(s))

RECURSIVE Unique(_, _)
Unique(s, seen) ==
    IF s = <<>> THEN <<>>
    ELSE IF Head(s) \in seen THEN Unique(Tail(s), seen)
         ELSE <<Head(s)>> \o Unique(Tail(s), seen \cup {Head(s)})

Min(S) == CHOOSE x \in S : \A y \in S : x <= y
Max(S) == CHOOSE x \in S : \A y \in S : x >= y

\* ------------------------------------------------------------ analyze_city
\* The order sort_values gives to rows of equal timestamp.  The call does not
\* ask for a stable kind (default kind='quicksort'), so the order of ties is
\* whatever the sort routine yields: one fixed outcome per run (tie_order).
TieBreak(rows) == IF tie_order = "input" THEN rows ELSE Reverse(rows)

RECURSIVE SortByKeys(_, _, _)
SortByKeys(df, lo, hi) ==
    IF lo > hi THEN <<>>
    ELSE TieBreak(SelectSeq(df, LAMBDA r : r.timestamp = <<lo>>))
         \o SortByKeys(df, lo + 1, hi)

\* city_df.sort_values('timestamp'): ascending, NaT rows last in input order.
Unsorted(df) == df
sort_values(df) ==
    LET keys == {Val(df[i].timestamp) : i \in {j \in 1..Len(df) : ~IsMissing(df[j].timestamp)}}
    IN  (IF keys = {} THEN <<>> ELSE SortByKeys(df, Min(keys), Max(keys)))
        \o SelectSeq(df, LAMBDA r : IsMissing(r.timestamp))

\* temperature.rolling(window=30, center=True).mean() at 1-based position i of
\* the sorted column: pandas' fixed window with offset (Window-1) \div 2 ends
\* (exclusive) at 0-based i0 + 1 + offset and starts Window earlier, clipped to
\* the column; min_periods defaults to Window, so fewer than Window present
\* values give NaN.
RollingTrailing(temps, i) ==
    LET last   == i - 1
        first  == last - Window + 1
        idx    == {j \in first..last : j >= 0 /\ j <= Len(temps) - 1}
        obs    == {j \in idx : ~IsMissing(temps[j + 1])}
    IN  IF Cardinality(obs) < Window THEN Missing
        ELSE <<SumSeq(AsSeq([k \in 1..Window |-> Val(temps[first + k])]))>>
RollingSpecWindow(temps, i) ==
    LET offset == Window \div 2
        i0     == i - 1
        last   == i0 + offset
        first  == last - Window + 1
        idx    == {j \in first..last : j >= 0 /\ j <= Len(temps) - 1}
        obs    == {j \in idx : ~IsMissing(temps[j + 1])}
    IN  IF Cardinality(obs) < Window THEN Missing
        ELSE <<SumSeq(AsSeq([k \in 1..Window |-> Val(temps[first + k])]))>>
rolling_mean(temps, i) ==
    LET offset == (Window - 1) \div 2
        i0     == i - 1
        last   == i0 + offset
        first  == last - Window + 1
        idx    == {j \in first..last : j >= 0 /\ j <= Len(temps) - 1}
        obs    == {j \in idx : ~IsMissing(temps[j + 1])}
    IN  IF Cardinality(obs) < Window THEN Missing
        ELSE <<SumSeq(AsSeq([k \in 1..Window |-> Val(temps[first + k])]))>>

\* groupby('season')['temperature'].agg(...) for one season of a frame: the
\* present temperatures of the season's rows.
SeasonTemps(df, s) ==
    LET rows == SelectSeq(df, LAMBDA r : r.season = s /\ ~IsMissing(r.temperature))
    IN  AsSeq([i \in 1..Len(rows) |-> Val(rows[i].temperature)])

AggCount(xs) == Len(xs)
AggMean(xs) == IF Len(xs) = 0 THEN Missing ELSE <<SumSeq(xs), Len(xs)>>
AggStd(xs) ==
    IF Len(xs) < 2 THEN Missing
    ELSE LET n == Len(xs)
             S == SumSeq(xs)
             Q == SumSeq(AsSeq([i \in 1..n |-> xs[i] * xs[i]]))
         IN  <<n * Q - S * S, n * (n - 1)>>

\* x > 2 * sqrt(v / d) for x = num / den with den > 0, v >= 0, d > 0.
ExceedsTwoStd(num, den, v, d) ==
    num > 0 /\ num * num * d > 4 * v * den * den

\* (t < mean - 2*std) | (t > mean + 2*std), lines 34-35 and 136: a comparison
\* with NaN on either side is False.
ReachesTwoStd(num, den, v, d) ==
    num >= 0 /\ num * num * d >= 4 * v * den * den
OutsideBandInclusive(t, mean, std) ==
    IF IsMissing(t) \/ IsMissing(mean) \/ IsMissing(std) THEN FALSE
    ELSE LET below == mean[1] - Val(t) * mean[2]
             above == Val(t) * mean[2] - mean[1]
         IN  \/ ReachesTwoStd(below, mean[2], std[1], std[2])
             \/ ReachesTwoStd(above, mean[2], std[1], std[2])
OutsideBandNegated(t, mean, std) ==
    IF IsMissing(t) \/ IsMissing(mean) THEN FALSE
    ELSE IF IsMissing(std) THEN TRUE
    ELSE LET below == mean[1] - Val(t) * mean[2]
             above == Val(t) * mean[2] - mean[1]
         IN  \/ ExceedsTwoStd(below, mean[2], std[1], std[2])
             \/ ExceedsTwoStd(above, mean[2], std[1], std[2])
OutsideBand(t, mean, std) ==
    IF IsMissing(t) \/ IsMissing(mean) \/ IsMissing(std) THEN FALSE
    ELSE LET below == mean[1] - Val(t) * mean[2]
             above == Val(t) * mean[2] - mean[1]
         IN  \/ ExceedsTwoStd(below, mean[2], std[1], std[2])
             \/ ExceedsTwoStd(above, mean[2], std[1], std[2])

\* seasonal_stats (lines 30-31): one row per season that occurs in the frame
\* (groupby orders the rows by season name).
seasonal_stats(df) ==
    LET present == {df[i].season : i \in 1..Len(df)}
        keys    == SelectSeq(<<"autumn", "spring", "summer", "winter">>,
                             LAMBDA s : s \in present)
    IN  AsSeq([k \in 1..Len(keys) |->
                 [season      |-> keys[k],
                  mean_season |-> AggMean(SeasonTemps(df, keys[k])),
                  std_season  |-> AggStd(SeasonTemps(df, keys[k]))]])

\* merge(seasonal_stats, on='season', how='left'), line 33: the statistics
\* row of a left row's season (seasonal_stats holds each season once).
merge_row(ss, season) == ss[CHOOSE k \in 1..Len(ss) : ss[k].season = season]

\* analyze_city (lines 26-36): sort, rolling mean, seasonal statistics, left
\* merge on season (one statistics row per season, so one output row per
\* sorted row, in the sorted order), anomaly flag.
analyze_city(city_df) ==
    LET sorted == sort_values(city_df)
        temps  == AsSeq([i \in 1..Len(sorted) |-> sorted[i].temperature])
        ss     == seasonal_stats(sorted)
    IN  AsSeq([i \in 1..Len(sorted) |->
            LET r  == sorted[i]
                st == merge_row(ss, r.season)
            IN  [city         |-> r.city,
                 timestamp    |-> r.timestamp,
                 temperature  |-> r.temperature,
                 season       |-> r.season,
                 rolling_mean |-> rolling_mean(temps, i),
                 mean_season  |-> st.mean_season,
                 std_season   |-> st.std_season,
                 is_anomaly   |-> OutsideBand(r.temperature, st.mean_season,
                                              st.std_season)]])

\* ------------------------------------------------------------ aggregation
\* df['city'].unique(): distinct values in order of first appearance, NaN
\* included.
unique_cities(df) == Unique([i \in 1..Len(df) |-> df[i].city], {})

\* df[df['city'] == city]: NaN == NaN is False, so the NaN group is empty.
city_group(df, city) ==
    SelectSeq(df, LAMBDA r : r.city = city /\ city # NaNCity)

city_groups(df) ==
    LET u == unique_cities(df) IN AsSeq([k \in 1..Len(u) |-> city_group(df, u[k])])

\* pd.concat(results): raises on an empty list of frames.
ConcatRaises(results) == Len(results) = 0

\* run_sequential (lines 38-41): the frame returned, when concat does not raise.
run_sequential(df) ==
    LET g == city_groups(df) IN Concat(AsSeq([k \in 1..Len(g) |-> analyze_city(g[k])]))

\* ------------------------------------------------------------ page helpers
\* sorted(data['city'].unique()), line 87: comparing NaN (a float) with a city
\* name raises TypeError; a single value is never compared.
SortedRaises(u) ==
    \E i \in 1..Len(u) : u[i] = NaNCity /\ Len(u) > 1

\* processed_data[processed_data['city'] == selected_city], line 90.
city_data_of(frame, city) ==
    SelectSeq(frame, LAMBDA r : r.city = city /\ city # NaNCity)

\* lines 95-98: count, mean, std, min, max of temperature per season present,
\* the rows in season_order.
season_table(cd) ==
    LET present == {cd[i].season : i \in 1..Len(cd)}
        keys    == SelectSeq(season_order, LAMBDA s : s \in present)
    IN  AsSeq([k \in 1..Len(keys) |->
                 LET xs == SeasonTemps(cd, keys[k])
                     vs == {xs[i] : i \in 1..Len(xs)}
                 IN  [season |-> keys[k],
                      count  |-> AggCount(xs),
                      mean   |-> AggMean(xs),
                      std    |-> AggStd(xs),
                      min    |-> IF vs = {} THEN Missing ELSE <<Min(vs)>>,
                      max    |-> IF vs = {} THEN Missing ELSE <<Max(vs)>>]])

\* What requests.get(url, timeout=5) can meet.
Responses ==
    {[raises |-> FALSE, status_code |-> 200, json_ok |-> TRUE],
     [raises |-> FALSE, status_code |-> 401, json_ok |-> TRUE],
     [raises |-> FALSE, status_code |-> 502, json_ok |-> FALSE],
     [raises |-> TRUE,  status_code |-> 0,   json_ok |-> FALSE]}
NoResponse == [raises |-> FALSE, status_code |-> 0, json_ok |-> FALSE]

\* get_weather_sync (lines 51-58): the status returned, or the exception
\* leaving the function.
GetWeatherNoExcept(resp) ==
    IF resp.raises \/ ~resp.json_ok
    THEN [raised |-> TRUE, status |-> 0]
    ELSE [raised |-> FALSE, status |-> resp.status_code]
get_weather_sync(resp) ==
    IF resp.raises \/ ~resp.json_ok
    THEN [raised |-> FALSE, status |-> 500]
    ELSE [raised |-> FALSE, status |-> resp.status_code]

\* lines 128-139: what is displayed for a current temperature.
current_verdict(table, curr_season, current_temp) ==
    IF \A k \in 1..Len(table) : table[k].season # curr_season THEN "none"
    ELSE LET row == table[CHOOSE k \in 1..Len(table) : table[k].season = curr_season]
         IN  IF OutsideBand(<<current_temp>>, row.mean, row.std)
             THEN "anomalous" ELSE "normal"

\* lines 147-182: the data the two figures are drawn from.
NoChart == [drawn |-> FALSE, daily |-> <<>>, anomalies |-> <<>>, bars |-> <<>>]
figures(cd, table) ==
    [drawn     |-> TRUE,
     daily     |-> AsSeq([i \in 1..Len(cd) |->
                          <<cd[i].timestamp, cd[i].temperature, cd[i].rolling_mean>>]),
     anomalies |-> LET a == SelectSeq(cd, LAMBDA r : r.is_anomaly)
                   IN  AsSeq([i \in 1..Len(a) |-> <<a[i].timestamp, a[i].temperature>>]),
     bars      |-> AsSeq([k \in 1..Len(table) |->
                          <<table[k].season, table[k].mean, table[k].std>>])]

\* ------------------------------------------------------------ inputs
Row(c, ts, t, s) == [city |-> c, timestamp |-> ts, temperature |-> t, season |-> s]

\* Rows of the free-form family: city A on two days (one day twice, with
\* different temperatures), city B, a second season, and one row each with no
\* city, no timestamp, no temperature.
RowKinds ==
    {Row("A", <<1>>, <<0>>, "winter"),
     Row("A", <<1>>, <<5>>, "winter"),
     Row("A", <<2>>, <<0>>, "winter"),
     Row("B", <<1>>, <<5>>, "winter"),
     Row("B", <<2>>, <<0>>, "winter"),
     Row("A", <<1>>, <<5>>, "summer"),
     Row(NaNCity, <<1>>, <<0>>, "winter"),
     Row("A", Missing, <<0>>, "winter"),
     Row("A", <<1>>, Missing, "winter")}

RECURSIVE SeqsUpTo(_, _)
SeqsUpTo(S, n) ==
    IF n = 0 THEN {<<>>}
    ELSE LET shorter == SeqsUpTo(S, n - 1)
         IN  shorter \cup {Append(q, x) : q \in {r \in shorter : Len(r) = n - 1}, x \in S}

\* One city's daily winter series of n rows, all at -5 except row p at 20
\* (p = 0: none; else the first or the last row), with the rows in ascending
\* date order, in descending date order, or with every date occurring twice.
Orders == {"asc", "desc", "dup"}
Series(n, p, ord) ==
    [i \in 1..n |->
        Row("A",
            <<CASE ord = "asc" -> i [] ord = "desc" -> n + 1 - i [] OTHER -> (i + 1) \div 2>>,
            <<IF i = p THEN 20 ELSE 0 - 5>>,
            "winter")]

Datasets ==
    SeqsUpTo(RowKinds, MaxLen)
    \cup UNION {{Series(n, p, ord) : p \in {0, 1, n}, ord \in Orders} : n \in 1..MaxN}

CurrentTemps == {0 - 5, 0, 20}
CurrentSeasons == {"winter", "autumn"}

\* ------------------------------------------------------------ the script run
Init ==
    /\ uploaded_file \in BOOLEAN
    /\ IF uploaded_file
       THEN data \in Datasets /\ api_key \in BOOLEAN /\ tie_order \in {"input", "reversed"}
       ELSE data = <<>> /\ api_key = FALSE /\ tie_order = "input"
    /\ pc = "start"
    /\ site = "main"
    /\ futures = <<>>
    /\ processed_data = <<>>
    /\ selected_city = Unset
    /\ stats = <<>>
    /\ response = NoResponse
    /\ status = 0
    /\ verdict = Unset
    /\ chart = NoChart
    /\ seq_result = <<>>
    /\ par_result = <<>>

\* lines 225-226: no file uploaded, only the hint is shown.
NoUpload ==
    /\ pc = "start" /\ ~uploaded_file
    /\ pc' = "done"
    /\ UNCHANGED <<uploaded_file, data, api_key, tie_order, site, futures,
                   processed_data, selected_city, stats, response, status,
                   verdict, chart, seq_result, par_result>>

\* run_parallel, lines 45-47: one task per city group handed to the pool.
ParSubmit ==
    /\ \/ pc = "start" /\ uploaded_file /\ site' = "main"
       \/ pc = "bench_par" /\ site' = "bench"
    /\ futures' = [k \in 1..Len(city_groups(data)) |-> [done |-> FALSE, frame |-> <<>>]]
    /\ pc' = "par_wait"
    /\ UNCHANGED <<uploaded_file, data, api_key, tie_order, processed_data,
                   selected_city, stats, response, status, verdict, chart,
                   seq_result, par_result>>

\* A pool worker finishes analyze_city on its group; workers finish in any order.
WorkerFinish(k) ==
    /\ pc = "par_wait"
    /\ ~futures[k].done
    /\ futures' = [futures EXCEPT ![k] =
                      [done |-> TRUE, frame |-> analyze_city(city_groups(data)[k])]]
    /\ UNCHANGED <<uploaded_file, data, api_key, tie_order, pc, site,
                   processed_data, selected_city, stats, response, status,
                   verdict, chart, seq_result, par_result>>

\* list(executor.map(...)) waits for every task and yields the results in
\* submission order; pd.concat (line 48) joins them or raises on none; the
\* pool and its futures end with the call.
JoinWithoutWaiting(fs) == TRUE
JoinReady(fs) == \A k \in 1..Len(fs) : fs[k].done
ParJoin ==
    /\ pc = "par_wait"
    /\ JoinReady(futures)
    /\ LET results == AsSeq([k \in 1..Len(futures) |-> futures[k].frame])
       IN  IF ConcatRaises(results)
           THEN /\ pc' = "crashed"
                /\ UNCHANGED <<processed_data, par_result>>
           ELSE IF site = "main"
           THEN /\ processed_data' = Concat(results)
                /\ pc' = "select"
                /\ UNCHANGED par_result
           ELSE /\ par_result' = Concat(results)
                /\ pc' = "done"
                /\ UNCHANGED processed_data
    /\ futures' = <<>>
    /\ UNCHANGED <<uploaded_file, data, api_key, tie_order, site,
                   selected_city, stats, response, status, verdict, chart,
                   seq_result>>

\* lines 87-98: the city list, the selection, the city's rows and its table.
SelectCity(c) ==
    /\ pc = "select"
    /\ LET u == unique_cities(data)
       IN  IF SortedRaises(u)
           THEN /\ pc' = "crashed"
                /\ UNCHANGED <<selected_city, stats>>
           ELSE /\ c \in {u[i] : i \in 1..Len(u)}
                /\ selected_city' = c
                /\ stats' = season_table(city_data_of(processed_data, c))
                /\ pc' = "weather"
    /\ UNCHANGED <<uploaded_file, data, api_key, tie_order, site, futures,
                   processed_data, response, status, verdict, chart,
                   seq_result, par_result>>

\* lines 116-141: the current-temperature block.
Weather(resp, current_temp, curr_season) ==
    /\ pc = "weather"
    /\ IF ~api_key
       THEN /\ pc' = "charts"
            /\ UNCHANGED <<response, status, verdict>>
       ELSE LET got == get_weather_sync(resp)
            IN  /\ response' = resp
                /\ IF got.raised
                   THEN /\ pc' = "crashed"
                        /\ UNCHANGED <<status, verdict>>
                   ELSE /\ status' = got.status
                        /\ verdict' = IF got.status = 200
                                       THEN current_verdict(stats, curr_season, current_temp)
                                       ELSE "api_error"
                        /\ pc' = "charts"
    /\ UNCHANGED <<uploaded_file, data, api_key, tie_order, site, futures,
                   processed_data, selected_city, stats, chart, seq_result,
                   par_result>>

\* lines 147-182: the time series with its anomalies, and the seasonal bars.
Charts ==
    /\ pc = "charts"
    /\ chart' = figures(city_data_of(processed_data, selected_city), stats)
    /\ pc' = "bench_seq"
    /\ UNCHANGED <<uploaded_file, data, api_key, tie_order, site, futures,
                   processed_data, selected_city, stats, response, status,
                   verdict, seq_result, par_result>>

\* lines 189-211: the request timings (which keep nothing but durations) and
\* run_sequential over the whole dataset.
RunSequential ==
    /\ pc = "bench_seq"
    /\ seq_result' = run_sequential(data)
    /\ pc' = IF ConcatRaises(city_groups(data)) THEN "crashed" ELSE "bench_par"
    /\ UNCHANGED <<uploaded_file, data, api_key, tie_order, site, futures,
                   processed_data, selected_city, stats, response, status,
                   verdict, chart, par_result>>

Next ==
    \/ NoUpload
    \/ ParSubmit
    \/ \E k \in 1..Len(futures) : WorkerFinish(k)
    \/ ParJoin
    \/ \E c \in {"A", "B", NaNCity} : SelectCity(c)
    \/ \E resp \in Responses, t \in CurrentTemps, s \in CurrentSeasons : Weather(resp, t, s)
    \/ Charts
    \/ RunSequential

Spec == Init /\ [][Next]_vars

\* ------------------------------------------------------------ observations
\* The analyze_city calls that have returned: worker k's input and output.
Analyzed == {k \in 1..Len(futures) : futures[k].done}
In(k) == city_groups(data)[k]
Out(k) == futures[k].frame

Triples(df) == AsSeq([i \in 1..Len(df) |-> <<df[i].city, df[i].timestamp, df[i].temperature>>])
Rows(df) ==
    AsSeq([i \in 1..Len(df) |->
             Row(df[i].city, df[i].timestamp, df[i].temperature, df[i].season)])
Count(s, x) == Len(SelectSeq(s, LAMBDA y : y = x))
SameBag(a, b) ==
    /\ Len(a) = Len(b)
    /\ \A i \in 1..Len(a) : Count(a, a[i]) = Count(b, a[i])

TimestampOrdered(df) ==
    \A i \in 1..Len(df) - 1 :
        IF IsMissing(df[i].timestamp) THEN IsMissing(df[i + 1].timestamp)
        ELSE \/ IsMissing(df[i + 1].timestamp)
             \/ Val(df[i].timestamp) <= Val(df[i + 1].timestamp)

NoMissingTemperature(df) == \A i \in 1..Len(df) : ~IsMissing(df[i].temperature)

\* 0-based sorted positions of a frame whose rolling_mean is defined.
DefinedAt(df) == {i - 1 : i \in {j \in 1..Len(df) : ~IsMissing(df[j].rolling_mean)}}

\* Sum of the temperatures at 0-based positions lo..hi of a frame.
WindowSum(df, lo, hi) == SumSeq(AsSeq([k \in 1..(hi - lo + 1) |-> Val(df[lo + k].temperature)]))

\* ------------------------------------------------------------ C1
\* C1: analyze_city returns exactly as many rows as it was given, with the same
\* multiset of (city, timestamp, temperature) triples, in non-decreasing
\* timestamp order (rows without a timestamp last); the merge keeps the sorted
\* rows one for one, in the sorted order.
C1_SameRowsSorted ==
    \A k \in Analyzed :
        /\ Len(Out(k)) = Len(In(k))
        /\ SameBag(Triples(Out(k)), Triples(In(k)))
        /\ TimestampOrdered(Out(k))
        /\ Rows(Out(k)) = sort_values(In(k))

C1_Witness ==
    \E k \in Analyzed :
        /\ Len(In(k)) >= 3
        /\ ~TimestampOrdered(In(k))
        /\ TimestampOrdered(Out(k))

\* ------------------------------------------------------------ C2
\* C2 as stated: for N >= 30 the rolling mean at 0-based sorted index i is
\* null iff i < 14 or i > N-16; for N < 30 every rolling mean is null.
C2_AsStated ==
    \A k \in Analyzed :
        LET N == Len(Out(k))
        IN  IF N >= Window
            THEN DefinedAt(Out(k)) = {i \in 0..N - 1 : ~(i < 14 \/ i > N - 16)}
            ELSE DefinedAt(Out(k)) = {}

\* C2 as amended: for a series of N >= 30 rows with every temperature present
\* the rolling mean at 0-based sorted index i is null iff i < 15 or i > N-15,
\* and where defined it is the mean of the 30 rows at sorted indices
\* i-15 .. i+14; for N < 30 every rolling mean is null.
C2_NullIffOutsideFullWindow ==
    \A k \in Analyzed :
        LET N == Len(Out(k))
        IN  IF N >= Window
            THEN NoMissingTemperature(In(k)) =>
                    /\ DefinedAt(Out(k)) = {i \in 0..N - 1 : ~(i < 15 \/ i > N - 15)}
                    /\ \A i \in DefinedAt(Out(k)) :
                          Out(k)[i + 1].rolling_mean = <<WindowSum(Out(k), i - 15, i + 14)>>
            ELSE DefinedAt(Out(k)) = {}

C2_Witness ==
    \E k \in Analyzed :
        /\ Len(Out(k)) > Window
        /\ IsMissing(Out(k)[15].rolling_mean)
        /\ ~IsMissing(Out(k)[16].rolling_mean)
        /\ ~IsMissing(Out(k)[Len(Out(k)) - 14].rolling_mean)
        /\ \E i \in 1..Len(Out(k)) : Out(k)[i].temperature = <<20>>

\* ------------------------------------------------------------ C9
\* C9 as stated: for N >= 30 the rolling mean is null for exactly the first 14
\* and the last 14 sorted rows and defined between them; for 40 rows it is
\* defined exactly at sorted indices 14..25.
C9_AsStated ==
    \A k \in Analyzed :
        LET N == Len(Out(k))
        IN  /\ N >= Window =>
                 \A i \in 0..N - 1 : (i \in DefinedAt(Out(k))) <=> (i >= 14 /\ i < N - 14)
            /\ N = 40 => DefinedAt(Out(k)) = 14..25

\* C9 as amended: for N >= 30 rows (every temperature present) the rolling
\* mean is null for exactly the first 15 and the last 14 sorted rows and
\* defined between them; for 40 rows it is defined exactly at sorted indices
\* 15..25.
C9_First15Last14Null ==
    \A k \in Analyzed :
        LET N == Len(Out(k))
        IN  /\ (N >= Window /\ NoMissingTemperature(In(k))) =>
                 \A i \in 0..N - 1 : (i \in DefinedAt(Out(k))) <=> (i >= 15 /\ i < N - 14)
            /\ (N = 40 /\ NoMissingTemperature(In(k))) => DefinedAt(Out(k)) = 15..25

C9_Witness ==
    \E k \in Analyzed :
        /\ Len(Out(k)) = 40
        /\ DefinedAt(Out(k)) # {}

\* ------------------------------------------------------------ C3
\* |t - mean| > 2 * std for the mean and sample deviation of n >= 2 values of
\* sum S and sum of squares Q: (n*t - S)^2 * (n-1) > 4*n*(n*Q - S^2).
DeviatesBeyondTwoStd(t, n, S, Q) ==
    (n * t - S) * (n * t - S) * (n - 1) > 4 * n * (n * Q - S * S)

\* C3: for every row whose season group has at least two temperatures,
\* is_anomaly holds iff |temperature - seasonal mean| > 2 * seasonal std,
\* strictly (a temperature at either bound is not anomalous); among 40 rows of
\* one season that are all equal but one, exactly that one is flagged.
C3_AnomalyIffBeyondTwoStd ==
    \A k \in Analyzed :
        LET out == Out(k)
            odd == {i \in 1..Len(out) :
                       Len(SelectSeq(out, LAMBDA r : r.temperature = out[i].temperature)) = 1}
        IN  /\ \A s \in {out[i].season : i \in 1..Len(out)} :
                 LET xs == SeasonTemps(In(k), s)
                     n  == Len(xs)
                     S  == SumSeq(xs)
                     Q  == SumSeq(AsSeq([i \in 1..n |-> xs[i] * xs[i]]))
                 IN  n >= 2 =>
                       \A i \in 1..Len(out) :
                          (out[i].season = s /\ ~IsMissing(out[i].temperature)) =>
                             (out[i].is_anomaly <=>
                                DeviatesBeyondTwoStd(Val(out[i].temperature), n, S, Q))
            /\ (Len(out) = 40 /\ Cardinality({out[i].season : i \in 1..40}) = 1
                  /\ Cardinality({out[i].temperature : i \in 1..40}) = 2
                  /\ Cardinality(odd) = 1) =>
                 {i \in 1..Len(out) : out[i].is_anomaly} = odd

C3_Witness ==
    \E k \in Analyzed :
        /\ Len(Out(k)) = 40
        /\ Cardinality({i \in 1..40 : Out(k)[i].is_anomaly}) = 1
        /\ \E i \in 1..40 : Out(k)[i].is_anomaly /\ Out(k)[i].temperature = <<20>>
        /\ \E j \in 1..40 : ~Out(k)[j].is_anomaly /\ ~IsMissing(Out(k)[j].std_season)

\* ------------------------------------------------------------ C4
\* C4: a row that is alone in its city/season group has an undefined seasonal
\* std and is not flagged, whatever its temperature; a city with one row in
\* all yields one row with a null rolling mean and no flag.
C4_SingletonSeasonNeverFlagged ==
    \A k \in Analyzed :
        LET out == Out(k)
        IN  /\ \A i \in 1..Len(out) :
                 Len(SelectSeq(In(k), LAMBDA r : r.season = out[i].season)) = 1 =>
                    (IsMissing(out[i].std_season) /\ ~out[i].is_anomaly)
            /\ Len(In(k)) = 1 =>
                 /\ Len(out) = 1
                 /\ IsMissing(out[1].rolling_mean)
                 /\ ~out[1].is_anomaly

C4_Witness ==
    \E k \in Analyzed :
        /\ Len(In(k)) = 1
        /\ ~IsMissing(In(k)[1].temperature)
        /\ Len(Out(k)) = 1
        /\ ~IsMissing(Out(k)[1].mean_season)

\* ------------------------------------------------------------ C5
\* C5: run_parallel and run_sequential return the same multiset of annotated
\* rows for the same dataset, whatever the order in which the workers finish.
C5_ParallelEqualsSequential ==
    /\ pc = "bench_par" => SameBag(processed_data, seq_result)
    /\ pc = "done" /\ uploaded_file => SameBag(par_result, seq_result)

C5_Witness ==
    /\ pc = "done"
    /\ Len(city_groups(data)) = 2
    /\ Len(par_result) = 2
    /\ par_result[1].city # par_result[2].city
    /\ SameBag(par_result, seq_result)

\* ------------------------------------------------------------ C6
\* An input analyze must refuse: rows of more than one city, or a row whose
\* temperature or timestamp is missing.
InvalidInput(df) ==
    \/ Cardinality({df[i].city : i \in 1..Len(df)}) > 1
    \/ \E i \in 1..Len(df) : IsMissing(df[i].temperature) \/ IsMissing(df[i].timestamp)

\* C6: analyze never returns annotated rows for an input that holds rows of
\* more than one city or a row whose temperature or timestamp is missing.
C6_InvalidInputRejected ==
    \A k \in Analyzed : ~InvalidInput(In(k))

\* ------------------------------------------------------------ C7
\* C7: when run_parallel / run_sequential return, the result holds exactly
\* one annotated row for each input row, rows without a city included.
C7_NoRowDropped ==
    /\ pc = "select" => SameBag(Rows(processed_data), data)
    /\ pc = "bench_par" => SameBag(Rows(seq_result), data)

\* ------------------------------------------------------------ C8
WeatherFailed(resp) == resp.raises \/ ~resp.json_ok \/ resp.status_code # 200

\* C8: a failed weather fetch comes back from get_weather_sync as a status
\* other than 200, never as an exception; the current-temperature block then
\* only reports the API error, the annotated rows and the seasonal table stay
\* as they were, and the figures are still drawn from them.
C8_FetchFailureLeavesAnalysis ==
    /\ [][(pc = "weather" /\ api_key /\ WeatherFailed(response')) =>
            /\ pc' = "charts"
            /\ status' # 200
            /\ verdict' = "api_error"
            /\ processed_data' = processed_data
            /\ stats' = stats]_vars
    /\ []((api_key /\ WeatherFailed(response) /\ pc \in {"bench_seq", "bench_par", "done"}) =>
            chart = figures(city_data_of(processed_data, selected_city),
                            season_table(city_data_of(processed_data, selected_city))))

C8_Witness ==
    /\ pc = "done"
    /\ response.raises
    /\ status = 500
    /\ verdict = "api_error"
    /\ chart.drawn
    /\ Len(chart.daily) > 0

\* ------------------------------------------------------------ C10
RECURSIVE StableByKeys(_, _, _)
StableByKeys(df, lo, hi) ==
    IF lo > hi THEN <<>>
    ELSE SelectSeq(df, LAMBDA r : r.timestamp = <<lo>>) \o StableByKeys(df, lo + 1, hi)

\* C10: the timestamp sort of analyze is stable: rows of equal timestamp
\* leave analyze in the relative order in which they entered it.
C10_SortIsStable ==
    \A k \in Analyzed :
        LET keys == {Val(In(k)[i].timestamp) :
                        i \in {j \in 1..Len(In(k)) : ~IsMissing(In(k)[j].timestamp)}}
        IN  Rows(Out(k)) =
               (IF keys = {} THEN <<>> ELSE StableByKeys(In(k), Min(keys), Max(keys)))
               \o SelectSeq(In(k), LAMBDA r : IsMissing(r.timestamp))

====
